---- MODULE Spec2Model ----
(***************************************************************************)
(* A model of devterm_plugin/main.py: the PluginManager (its two tables,   *)
(* discovery, load, unload, execute, schema query, listing), the three     *)
(* example plugins and the built-in registration done by main().           *)
(*                                                                         *)
(* Python values are modelled as follows.                                  *)
(*   - a str whose content the code computes with (the text a plugin       *)
(*     transforms, the message str(e) of an exception) is a sequence of    *)
(*     string fragments, the empty str being << >>; a str that is only     *)
(*     ever compared (a plugin name, a description, a class name) is a     *)
(*     TLA+ string;                                                        *)
(*   - a dict whose iteration order the code depends on (self.plugins) is  *)
(*     a sequence of [key, value] records, in insertion order;             *)
(*   - a dict whose order nothing reads (self._discovered_plugins) is a    *)
(*     function whose DOMAIN is the key set;                               *)
(*   - the outcome of a call is [kind |-> "return", value |-> v] or        *)
(*     [kind |-> "raise", exc |-> e]; None/True/False/dict values carry a   *)
(*     tag so that values of different Python types can be compared.       *)
(*                                                                         *)
(* Three specifications share the variables.                               *)
(*   Spec            every method of the manager is one step;              *)
(*   SpecScan        the same, each scan keeping the directory listing it  *)
(*                   has read in the call record;                          *)
(*   SpecConcurrent  two threads call load_plugin, execute_plugin and      *)
(*                   unload_plugin, one line of a method being one step.   *)
(***************************************************************************)
EXTENDS Integers, Sequences, FiniteSets, TLC

\* ------------------------------------------------------------------ bounds

\* Instances constructed in one behaviour (plugin_class() calls).
MaxInst == 6

\* Files in the discovery root at the time of one scan.
MaxFiles == 3

\* -------------------------------------------------------------------- state

VARIABLES
    plugins,             \* self.plugins: name -> instance, in insertion order
    discovered_plugins,  \* self._discovered_plugins: name -> class
    plugin_dir_exists,   \* self.plugin_dir.exists()
    nextId,              \* the number of the next instance constructed
    last,                \* the most recent call: [op, name, input, out, after, made]
    entered,             \* the live names, in the order they last became live
    callers              \* per thread, the call it is in and the line it is at

vars == <<plugins, discovered_plugins, plugin_dir_exists, nextId, last, entered, callers>>

\* ------------------------------------------------------------ Python values

PyNone == [tag |-> "None"]
PyBool(b) == [tag |-> "bool", b |-> b]
PyDict(d) == [tag |-> "dict", d |-> d]
PyList(s) == [tag |-> "list", items |-> s]

Return(v) == [kind |-> "return", value |-> v]
Raise(type, msg) == [kind |-> "raise", exc |-> [type |-> type, msg |-> msg]]

\* ---------------------------------------------------------- ordered dict ops

Range(s) == {s[i] : i \in DOMAIN s}

Keys(d) == {d[i].key : i \in DOMAIN d}

IndexOf(d, k) == CHOOSE i \in DOMAIN d : d[i].key = k

\* d[k] for a key that is present.
DictGet(d, k) == d[IndexOf(d, k)].value

\* d[k] = v: a present key keeps its position and takes the new value, an
\* absent key is appended.
DictSet(d, k, v) ==
    IF k \in Keys(d)
    THEN [i \in DOMAIN d |-> IF d[i].key = k THEN [key |-> k, value |-> v] ELSE d[i]]
    ELSE Append(d, [key |-> k, value |-> v])

\* del d[k], for a key that is present.
DictDel(d, k) == SelectSeq(d, LAMBDA e : e.key # k)

\* -------------------------------------------------------------------- texts

\* str.upper() on one character of the alphabet used here.
UpperChar(c) == CASE c = "a" -> "A" [] c = "b" -> "B" [] OTHER -> c

\* text.upper()
Upper(text) == [i \in DOMAIN text |-> UpperChar(text[i])]

\* text[::-1]
Reversed(text) == [i \in DOMAIN text |-> text[Len(text) + 1 - i]]

IsSpace(c) == c \in {" ", "\n"}

\* len(text.split()): the maximal runs of non-whitespace characters.
SplitCount(text) ==
    Cardinality({i \in DOMAIN text :
                    /\ ~IsSpace(text[i])
                    /\ (i = 1 \/ IsSpace(text[i - 1]))})

\* len(text.splitlines()): one line per line break, and one more for a
\* non-empty remainder after the last line break.
SplitLinesCount(text) ==
    Cardinality({i \in DOMAIN text : text[i] = "\n"})
        + (IF Len(text) > 0 /\ text[Len(text)] # "\n" THEN 1 ELSE 0)

Digit(n) == <<"0", "1", "2", "3", "4", "5", "6", "7", "8", "9">>[n + 1]

RECURSIVE IntToStr(_)
\* The decimal digits of a natural number, as an f-string formats it.
IntToStr(n) == IF n < 10 THEN <<Digit(n)>> ELSE IntToStr(n \div 10) \o <<Digit(n % 10)>>

\* The texts callers pass.
Texts == {<< >>, <<"a", " ", "b", "\n">>}

\* input_data: a mapping that has the key "text" or is empty.
EmptyInput == [k \in {} |-> << >>]
Inputs == {EmptyInput} \cup {[text |-> t] : t \in Texts}

\* input_data.get(key, default)
InputGet(input, key, default) == IF key \in DOMAIN input THEN input[key] ELSE default

\* --------------------------------------------------------------- exceptions

\* The classes `except Exception` catches.  The faults plugins raise here
\* are errors, which derive from Exception.
ExceptionTypes ==
    {"KeyError", "ValueError", "RuntimeError", "NotImplementedError", "SyntaxError"}

IsException(exc) == exc.type \in ExceptionTypes

\* str(e): a KeyError shows the repr of its key, any other exception its one
\* argument, and an exception raised without arguments the empty string.
Str(exc) ==
    IF exc.msg = << >> THEN << >>
    ELSE IF exc.type = "KeyError" THEN <<"'">> \o exc.msg \o <<"'">>
    ELSE exc.msg

\* ----------------------------------------------------------- plugin classes

\* The schema the three example plugins return.
TextSchema ==
    PyDict([inputs  |-> <<[name |-> "text", type |-> "string", label |-> "Input Text"]>>,
            outputs |-> <<[name |-> "output", type |-> "string"]>>])

\* BUILTIN_PLUGINS, in the order of the dict literal.
BUILTIN_PLUGINS ==
    << [key |-> "uppercase", value |-> "UppercasePlugin"],
       [key |-> "reverse",   value |-> "ReversePlugin"],
       [key |-> "wordcount", value |-> "WordCountPlugin"] >>

BuiltinClasses == {BUILTIN_PLUGINS[i].value : i \in DOMAIN BUILTIN_PLUGINS}

\* ToolPlugin subclasses that plugin files of the discovery root define.
\*   AlphaOne  name "alpha"; execute reads input_data["text"], raises
\*             ValueError() on an empty text and echoes any other text;
\*             get_schema raises NotImplementedError().
\*   AlphaTwo  name "alpha" too; execute reports a failure of its own as
\*             data; get_schema returns the text schema.
\*   AlphaWip  name "alpha" too; its __init__ raises RuntimeError, so it
\*             cannot be instantiated.
ExternalClasses == {"AlphaOne", "AlphaTwo", "AlphaWip"}

Classes == BuiltinClasses \cup ExternalClasses

\* The class attributes name, description, category (ToolPlugin's defaults
\* where a class does not set them).
ClassAttrs(cls) ==
    CASE cls = "UppercasePlugin" ->
            [name |-> "uppercase", description |-> "Convert text to uppercase", category |-> "Text"]
      [] cls = "ReversePlugin" ->
            [name |-> "reverse", description |-> "Reverse text", category |-> "Text"]
      [] cls = "WordCountPlugin" ->
            [name |-> "wordcount", description |-> "Count words, characters, and lines",
             category |-> "Text"]
      [] cls = "AlphaOne" ->
            [name |-> "alpha", description |-> "A DevTerm tool plugin", category |-> "Custom"]
      [] cls = "AlphaTwo" ->
            [name |-> "alpha", description |-> "Second alpha", category |-> "Custom"]
      [] cls = "AlphaWip" ->
            [name |-> "alpha", description |-> "Alpha rewrite", category |-> "Custom"]

\* Whether the __init__ of a class raises.
InitRaises(cls) == cls = "AlphaWip"

\* plugin_class(): the instance, numbered id, or the fault of the constructor.
Construct(cls, id) ==
    IF InitRaises(cls)
    THEN Raise("RuntimeError", <<"not configured">>)
    ELSE Return([cls |-> cls, id |-> id])

\* UppercasePlugin.execute
UppercaseExecute(input) ==
    LET text == InputGet(input, "text", << >>)
    IN  Return(PyDict([success |-> TRUE, output |-> Upper(text)]))

\* ReversePlugin.execute
ReverseExecute(input) ==
    LET text == InputGet(input, "text", << >>)
    IN  Return(PyDict([success |-> TRUE, output |-> Reversed(text)]))

\* WordCountPlugin.execute
WordCountExecute(input) ==
    LET text  == InputGet(input, "text", << >>)
        words == SplitCount(text)
        chars == Len(text)
        lines == SplitLinesCount(text)
    IN  Return(PyDict([success |-> TRUE,
                       output  |-> <<"Words: ">> \o IntToStr(words)
                                   \o <<"\nCharacters: ">> \o IntToStr(chars)
                                   \o <<"\nLines: ">> \o IntToStr(lines)]))

\* AlphaOne.execute: input_data["text"] raises KeyError on a missing key.
AlphaOneExecute(input) ==
    IF "text" \notin DOMAIN input THEN Raise("KeyError", <<"text">>)
    ELSE IF input["text"] = << >> THEN Raise("ValueError", << >>)
    ELSE Return(PyDict([success |-> TRUE, output |-> input["text"]]))

\* AlphaTwo.execute
AlphaTwoExecute(input) ==
    Return(PyDict([success |-> FALSE, error |-> <<"unsupported">>]))

\* plugin.execute(input_data), dispatched on the instance's class.
PluginExecute(inst, input) ==
    CASE inst.cls = "UppercasePlugin" -> UppercaseExecute(input)
      [] inst.cls = "ReversePlugin"   -> ReverseExecute(input)
      [] inst.cls = "WordCountPlugin" -> WordCountExecute(input)
      [] inst.cls = "AlphaOne"        -> AlphaOneExecute(input)
      [] inst.cls = "AlphaTwo"        -> AlphaTwoExecute(input)

\* plugin.get_schema(), dispatched on the instance's class.
PluginGetSchema(inst) ==
    IF inst.cls = "AlphaOne" THEN Raise("NotImplementedError", << >>)
    ELSE Return(TextSchema)

\* ----------------------------------------------------- the discovery root

\* The *.py files that the discovery root may hold.
\*   alpha_one.py  defines AlphaOne
\*   alpha_two.py  defines AlphaTwo
\*   alpha_wip.py  defines AlphaWip
\*   broken.py     defines AlphaTwo, then raises at module level
\*   _private.py   defines AlphaTwo, in a file discovery skips
PluginFiles == {"alpha_one.py", "alpha_two.py", "alpha_wip.py", "broken.py", "_private.py"}

\* file.name.startswith("_")
StartsWithUnderscore(file) == file \in {"_private.py"}

\* spec.loader.exec_module(module): whether executing the file raises.
ExecModuleRaises(file) == file = "broken.py"

\* The ToolPlugin subclasses among dir(module), which is sorted by
\* attribute name; ToolPlugin itself is left out by the test of line 61.
ModuleClasses(file) ==
    CASE file = "alpha_one.py" -> <<"AlphaOne">>
      [] file = "alpha_two.py" -> <<"AlphaTwo">>
      [] file = "alpha_wip.py" -> <<"AlphaWip">>
      [] file = "_private.py"  -> <<"AlphaTwo">>
      [] file = "broken.py"    -> <<"AlphaTwo">>
      [] OTHER                 -> << >>

\* D.setdefault(k, v): a key that is present keeps its value.
\* (faulty variant)
DefSetFirstWins(D, k, v) == [x \in DOMAIN D \cup {k} |-> IF x \in DOMAIN D THEN D[x] ELSE v]

\* D[k] = v on the definitions table.
DefSet(D, k, v) == [x \in DOMAIN D \cup {k} |-> IF x = k THEN v ELSE D[x]]

RECURSIVE RegisterClasses(_, _, _)
\* Lines 59-63: every class found is stored under its name attribute and
\* its name appended to `discovered`.  acc = [defs, discovered].
RegisterClasses(classes, i, acc) ==
    IF i > Len(classes) THEN acc
    ELSE LET obj == classes[i]
         IN  RegisterClasses(classes, i + 1,
                 [defs       |-> DefSet(acc.defs, ClassAttrs(obj).name, obj),
                  discovered |-> Append(acc.discovered, ClassAttrs(obj).name)])

\* Lines 47-61, one iteration of the loop over the files: the classes it
\* goes on to register.  A file whose name starts with an underscore is
\* skipped, and a file whose execution raises registers nothing (its fault
\* is caught at line 64).
ScanFile(file) ==
    IF StartsWithUnderscore(file) THEN << >>
    ELSE IF ExecModuleRaises(file) THEN << >>
    ELSE ModuleClasses(file)

RECURSIVE ScanFilesUntilFault(_, _)
\* A scan that a file's fault ends: the files after it are not looked at.
\* (faulty variant)
ScanFilesUntilFault(order, i) ==
    IF i > Len(order) THEN << >>
    ELSE IF ~StartsWithUnderscore(order[i]) /\ ExecModuleRaises(order[i]) THEN << >>
    ELSE ScanFile(order[i]) \o ScanFilesUntilFault(order, i + 1)

RECURSIVE ScanFiles(_, _)
\* Lines 46-61: the classes the scan registers, file after file in the
\* order glob yields them.
ScanFiles(order, i) ==
    IF i > Len(order) THEN << >>
    ELSE ScanFile(order[i]) \o ScanFiles(order, i + 1)

\* The sequences that hold each element of the set S once.
Orders(S) == {s \in [1..Cardinality(S) -> S] : Range(s) = S}

\* What glob can yield: any of the files, in any order.
DirListings ==
    UNION {Orders(S) : S \in {T \in SUBSET PluginFiles : Cardinality(T) <= MaxFiles}}

\* What a scan of an existing directory can find.
ScanResults == {ScanFiles(order, 1) : order \in DirListings}

\* ------------------------------------------------------------ PluginManager

\* discover_plugins that clears the definitions before it scans.
\* (faulty variant)
discover_plugins_reset(D, exists, found) ==
    IF ~exists
    THEN [out |-> Return(PyList(<< >>)), defs |-> D, exists |-> TRUE]
    ELSE LET acc == RegisterClasses(found, 1, [defs |-> [k \in {} |-> "-"],
                                               discovered |-> << >>])
         IN  [out |-> Return(PyList(acc.discovered)), defs |-> acc.defs, exists |-> TRUE]

\* discover_plugins that returns at line 44 without making the directory.
\* (faulty variant)
discover_plugins_no_mkdir(D, exists, found) ==
    IF ~exists
    THEN [out |-> Return(PyList(<< >>)), defs |-> D, exists |-> FALSE]
    ELSE LET acc == RegisterClasses(found, 1, [defs |-> D, discovered |-> << >>])
         IN  [out |-> Return(PyList(acc.discovered)), defs |-> acc.defs, exists |-> TRUE]

\* discover_plugins(), `found` being the classes the scan of the directory
\* finds, in the order it finds them.  The result is [out, defs, exists].
discover_plugins(D, exists, found) ==
    IF ~exists
    THEN [out |-> Return(PyList(<< >>)), defs |-> D, exists |-> TRUE]
    ELSE LET acc == RegisterClasses(found, 1, [defs |-> D, discovered |-> << >>])
         IN  [out |-> Return(PyList(acc.discovered)), defs |-> acc.defs, exists |-> TRUE]

\* load_plugin that stores the instance without asking whether the name is
\* live.  (faulty variant)
load_plugin_no_live_check(P, D, id, name) ==
    IF name \notin DOMAIN D
    THEN [out |-> Return(PyBool(FALSE)), plugins |-> P, nextId |-> id]
    ELSE LET made == Construct(D[name], id)
         IN  IF made.kind = "return"
             THEN [out |-> Return(PyBool(TRUE)),
                   plugins |-> DictSet(P, name, made.value), nextId |-> id + 1]
             ELSE [out |-> Return(PyBool(FALSE)), plugins |-> P, nextId |-> id]

\* load_plugin that reports success for a name it does not know.
\* (faulty variant)
load_plugin_unknown_ok(P, D, id, name) ==
    IF name \in Keys(P) \/ name \notin DOMAIN D
    THEN [out |-> Return(PyBool(TRUE)), plugins |-> P, nextId |-> id]
    ELSE load_plugin_no_live_check(P, D, id, name)

\* load_plugin that lets the constructor's fault escape.  (faulty variant)
load_plugin_uncaught(P, D, id, name) ==
    IF name \in Keys(P)
    THEN [out |-> Return(PyBool(TRUE)), plugins |-> P, nextId |-> id]
    ELSE IF name \notin DOMAIN D
    THEN [out |-> Return(PyBool(FALSE)), plugins |-> P, nextId |-> id]
    ELSE LET made == Construct(D[name], id)
         IN  IF made.kind = "return"
             THEN [out |-> Return(PyBool(TRUE)),
                   plugins |-> DictSet(P, name, made.value), nextId |-> id + 1]
             ELSE [out |-> made, plugins |-> P, nextId |-> id]

\* load_plugin that falls back on BUILTIN_PLUGINS for a name that has no
\* definition.  (faulty variant)
load_plugin_builtin_fallback(P, D, id, name) ==
    IF name \in Keys(P)
    THEN [out |-> Return(PyBool(TRUE)), plugins |-> P, nextId |-> id]
    ELSE IF name \notin DOMAIN D
    THEN IF name \in Keys(BUILTIN_PLUGINS)
         THEN [out |-> Return(PyBool(TRUE)),
               plugins |-> DictSet(P, name, [cls |-> DictGet(BUILTIN_PLUGINS, name), id |-> id]),
               nextId |-> id + 1]
         ELSE [out |-> Return(PyBool(FALSE)), plugins |-> P, nextId |-> id]
    ELSE load_plugin_no_live_check(P, D, id, name)

\* load_plugin(name) on the tables P (live) and D (definitions), `id` being
\* the number the next instance gets.  The result is [out, plugins, nextId].
load_plugin(P, D, id, name) ==
    IF name \in Keys(P)
    THEN [out |-> Return(PyBool(TRUE)), plugins |-> P, nextId |-> id]
    ELSE IF name \notin DOMAIN D
    THEN [out |-> Return(PyBool(FALSE)), plugins |-> P, nextId |-> id]
    ELSE LET made == Construct(D[name], id)
         IN  IF made.kind = "return"
             THEN [out |-> Return(PyBool(TRUE)),
                   plugins |-> DictSet(P, name, made.value), nextId |-> id + 1]
             ELSE IF IsException(made.exc)
             THEN [out |-> Return(PyBool(FALSE)), plugins |-> P, nextId |-> id]
             ELSE [out |-> made, plugins |-> P, nextId |-> id]

\* unload_plugin as `self.plugins.pop(name, None); return True`.
\* (faulty variant)
unload_plugin_always_true(P, name) ==
    [out |-> Return(PyBool(TRUE)), plugins |-> SelectSeq(P, LAMBDA e : e.key # name)]

\* unload_plugin(name).  The result is [out, plugins].
unload_plugin(P, name) ==
    IF name \in Keys(P)
    THEN [out |-> Return(PyBool(TRUE)), plugins |-> DictDel(P, name)]
    ELSE [out |-> Return(PyBool(FALSE)), plugins |-> P]

\* self.plugins[name], a KeyError when the key is absent.
Subscript(P, name) ==
    IF name \in Keys(P) THEN Return(DictGet(P, name)) ELSE Raise("KeyError", <<name>>)

\* The dispatch without the handler of lines 100-101.  (faulty variant)
UnhandledExecute(P, name, input) ==
    LET got == Subscript(P, name)
    IN  IF got.kind = "raise" THEN got ELSE PluginExecute(got.value, input)

\* The dispatch with the look-up of self.plugins[name] before the try
\* statement: only the plugin's execute is under the handler.
\* (faulty variant)
ContainedExecuteAfterLookup(P, name, input) ==
    LET got == Subscript(P, name)
    IN  IF got.kind = "raise" THEN got
        ELSE LET res == PluginExecute(got.value, input)
             IN  IF res.kind = "raise" /\ IsException(res.exc)
                 THEN Return(PyDict([success |-> FALSE, error |-> Str(res.exc)]))
                 ELSE res

\* Lines 98-101: the dispatch under `except Exception`.
ContainedExecute(P, name, input) ==
    LET got == Subscript(P, name)
        res == IF got.kind = "raise" THEN got ELSE PluginExecute(got.value, input)
    IN  IF res.kind = "raise" /\ IsException(res.exc)
        THEN Return(PyDict([success |-> FALSE, error |-> Str(res.exc)]))
        ELSE res

\* execute_plugin without the implicit load of lines 94-96: a name that is
\* not live gives None.  (faulty variant)
execute_plugin_no_autoload(P, D, id, name, input) ==
    IF name \notin Keys(P)
    THEN [out |-> Return(PyNone), plugins |-> P, nextId |-> id]
    ELSE [out |-> ContainedExecute(P, name, input), plugins |-> P, nextId |-> id]

\* execute_plugin that builds a new instance when the definition of a live
\* name is no longer the class of its instance.  (faulty variant)
execute_plugin_fresh(P, D, id, name, input) ==
    IF /\ name \in Keys(P)
       /\ name \in DOMAIN D
       /\ D[name] # DictGet(P, name).cls
       /\ ~InitRaises(D[name])
    THEN LET Q == DictSet(P, name, [cls |-> D[name], id |-> id])
         IN  [out |-> ContainedExecute(Q, name, input), plugins |-> Q, nextId |-> id + 1]
    ELSE execute_plugin_no_autoload(P, D, id, name, input)

\* execute_plugin that forgets the instance it has loaded when the plugin's
\* execute raises.  (faulty variant)
execute_plugin_drop_on_fault(P, D, id, name, input) ==
    LET l == IF name \notin Keys(P) THEN load_plugin(P, D, id, name)
             ELSE [out |-> Return(PyBool(TRUE)), plugins |-> P, nextId |-> id]
    IN  IF l.out.kind = "raise" THEN l
        ELSE IF ~l.out.value.b
        THEN [out |-> Return(PyNone), plugins |-> l.plugins, nextId |-> l.nextId]
        ELSE [out |-> ContainedExecute(l.plugins, name, input),
              plugins |-> IF UnhandledExecute(l.plugins, name, input).kind = "raise"
                          THEN P ELSE l.plugins,
              nextId |-> l.nextId]

\* execute_plugin(name, input_data).  The result is [out, plugins, nextId].
execute_plugin(P, D, id, name, input) ==
    LET l == IF name \notin Keys(P) THEN load_plugin(P, D, id, name)
             ELSE [out |-> Return(PyBool(TRUE)), plugins |-> P, nextId |-> id]
    IN  IF l.out.kind = "raise" THEN l
        ELSE IF ~l.out.value.b
        THEN [out |-> Return(PyNone), plugins |-> l.plugins, nextId |-> l.nextId]
        ELSE [out |-> ContainedExecute(l.plugins, name, input),
              plugins |-> l.plugins, nextId |-> l.nextId]

\* Line 109: the dispatch of get_plugin_schema, under no handler.
UncontainedGetSchema(P, name) ==
    LET got == Subscript(P, name)
    IN  IF got.kind = "raise" THEN got ELSE PluginGetSchema(got.value)

\* get_plugin_schema with the dispatch under a handler that gives None.
\* (faulty variant)
get_plugin_schema_contained(P, D, id, name) ==
    LET l == IF name \notin Keys(P) THEN load_plugin(P, D, id, name)
             ELSE [out |-> Return(PyBool(TRUE)), plugins |-> P, nextId |-> id]
        got == UncontainedGetSchema(l.plugins, name)
    IN  IF l.out.kind = "raise" THEN l
        ELSE IF ~l.out.value.b
        THEN [out |-> Return(PyNone), plugins |-> l.plugins, nextId |-> l.nextId]
        ELSE [out |-> IF got.kind = "raise" THEN Return(PyNone) ELSE got,
              plugins |-> l.plugins, nextId |-> l.nextId]

\* get_plugin_schema(name).  The result is [out, plugins, nextId].
get_plugin_schema(P, D, id, name) ==
    LET l == IF name \notin Keys(P) THEN load_plugin(P, D, id, name)
             ELSE [out |-> Return(PyBool(TRUE)), plugins |-> P, nextId |-> id]
    IN  IF l.out.kind = "raise" THEN l
        ELSE IF ~l.out.value.b
        THEN [out |-> Return(PyNone), plugins |-> l.plugins, nextId |-> l.nextId]
        ELSE [out |-> UncontainedGetSchema(l.plugins, name),
              plugins |-> l.plugins, nextId |-> l.nextId]

\* list_plugins that lists a definition that is not live as well, after the
\* live entries.  (faulty variant)
list_plugins_all_known(P) ==
    [i \in DOMAIN P |->
        [name        |-> P[i].key,
         description |-> ClassAttrs(P[i].value.cls).description,
         category    |-> ClassAttrs(P[i].value.cls).category]]
    \o (IF "alpha" \in DOMAIN discovered_plugins \ Keys(P)
        THEN <<[name        |-> "alpha",
                description |-> ClassAttrs(discovered_plugins["alpha"]).description,
                category    |-> ClassAttrs(discovered_plugins["alpha"]).category]>>
        ELSE << >>)

\* list_plugins(): one entry per item of self.plugins, in its order.
list_plugins(P) ==
    [i \in DOMAIN P |->
        [name        |-> P[i].key,
         description |-> ClassAttrs(P[i].value.cls).description,
         category    |-> ClassAttrs(P[i].value.cls).category]]

RECURSIVE InsertBuiltins(_, _, _)
\* main(), lines 203-204: manager.plugins[name] = plugin_class() for every
\* item of BUILTIN_PLUGINS from the i-th on.  The result is [plugins, nextId].
InsertBuiltins(P, id, i) ==
    IF i > Len(BUILTIN_PLUGINS) THEN [plugins |-> P, nextId |-> id]
    ELSE LET made == Construct(BUILTIN_PLUGINS[i].value, id)
         IN  InsertBuiltins(DictSet(P, BUILTIN_PLUGINS[i].key, made.value), id + 1, i + 1)

\* ------------------------------------------------------------- call history

\* The names callers pass: the two built-ins main() executes, the name the
\* plugin files declare, and a name nothing declares.
Names == {"uppercase", "wordcount", "alpha", "ghost"}

NoName == "-"

\* What a discover_plugins that returned at line 44 has read of the
\* directory: it has not reached glob.
NoListing == <<NoName>>

\* What the call before did to `name`: "loaded" when it was a load_plugin of
\* the same name that returned True, "unloaded" when it was an unload_plugin
\* of the same name that returned True, "created" when it was a
\* discover_plugins that made the directory, "other" otherwise.
After(call, name) ==
    IF call.name = name /\ call.out = Return(PyBool(TRUE)) /\ call.op = "load"
    THEN "loaded"
    ELSE IF call.name = name /\ call.out = Return(PyBool(TRUE)) /\ call.op = "unload"
    THEN "unloaded"
    ELSE IF call.op = "discover" /\ call.input = NoListing
    THEN "created"
    ELSE "other"

\* The record of a call; `made` is the number of instances it constructed.
Call(op, name, input, out, made) ==
    [op |-> op, name |-> name, input |-> input, out |-> out,
     after |-> After(last, name), made |-> made]

NoCall ==
    [op |-> "none", name |-> NoName, input |-> EmptyInput, out |-> Return(PyNone),
     after |-> "other", made |-> 0]

\* The names of `before` that are still live, then the names among
\* `arrivals` that became live, in the order they did.
NoteEntries(before, after, arrivals) ==
    SelectSeq(before, LAMBDA n : n \in after)
        \o SelectSeq(arrivals, LAMBDA n : n \in after /\ n \notin Range(before))

\* The threads that call the manager.
Threads == {"t1", "t2"}

\* The local `self.plugins[name] = ...` is about to store, before
\* plugin_class() has returned.
NoInst == [cls |-> "-", id |-> 0]

\* A thread that is in no call of the manager.
Idle ==
    [pc |-> "idle", op |-> "none", name |-> NoName, input |-> EmptyInput,
     inst |-> NoInst, made |-> 0]

\* PluginManager.__init__: both tables empty.  The discovery root may or may
\* not exist yet.
Init ==
    /\ plugins = << >>
    /\ discovered_plugins = [k \in {} |-> "-"]
    /\ plugin_dir_exists \in BOOLEAN
    /\ nextId = 1
    /\ last = NoCall
    /\ entered = << >>
    /\ callers = [t \in Threads |-> Idle]

\* ------------------------------------------------------------------ actions

\* discover_plugins().  What the directory holds at the time of a scan and
\* the order in which glob yields it are the environment's choice; a
\* directory that does not exist holds nothing.
Discover ==
    \E found \in (IF plugin_dir_exists THEN ScanResults ELSE {<< >>}) :
        LET r == discover_plugins(discovered_plugins, plugin_dir_exists, found)
        IN  /\ discovered_plugins' = r.defs
            /\ plugin_dir_exists' = r.exists
            /\ last' = Call("discover", NoName, EmptyInput, r.out, 0)
            /\ UNCHANGED <<plugins, nextId, entered, callers>>

\* discover_plugins() on a directory of which glob yields `order`, the call
\* record keeping what the call has read of the directory.  A directory
\* that does not exist has no listing.
DiscoverIn(order) ==
    LET r == discover_plugins(discovered_plugins, plugin_dir_exists, ScanFiles(order, 1))
    IN  /\ plugin_dir_exists \/ order = << >>
        /\ discovered_plugins' = r.defs
        /\ plugin_dir_exists' = r.exists
        /\ last' = Call("discover", NoName,
                        IF plugin_dir_exists THEN order ELSE NoListing, r.out, 0)
        /\ UNCHANGED <<plugins, nextId, entered, callers>>

Load(name) ==
    LET r == load_plugin(plugins, discovered_plugins, nextId, name)
    IN  /\ r.nextId <= MaxInst + 1
        /\ plugins' = r.plugins
        /\ nextId' = r.nextId
        /\ last' = Call("load", name, EmptyInput, r.out, r.nextId - nextId)
        /\ entered' = NoteEntries(entered, Keys(r.plugins), <<name>>)
        /\ UNCHANGED <<discovered_plugins, plugin_dir_exists, callers>>

Unload(name) ==
    LET r == unload_plugin(plugins, name)
    IN  /\ plugins' = r.plugins
        /\ last' = Call("unload", name, EmptyInput, r.out, 0)
        /\ entered' = NoteEntries(entered, Keys(r.plugins), << >>)
        /\ UNCHANGED <<discovered_plugins, plugin_dir_exists, nextId, callers>>

Execute(name, input) ==
    LET r == execute_plugin(plugins, discovered_plugins, nextId, name, input)
    IN  /\ r.nextId <= MaxInst + 1
        /\ plugins' = r.plugins
        /\ nextId' = r.nextId
        /\ last' = Call("execute", name, input, r.out, r.nextId - nextId)
        /\ entered' = NoteEntries(entered, Keys(r.plugins), <<name>>)
        /\ UNCHANGED <<discovered_plugins, plugin_dir_exists, callers>>

GetSchema(name) ==
    LET r == get_plugin_schema(plugins, discovered_plugins, nextId, name)
    IN  /\ r.nextId <= MaxInst + 1
        /\ plugins' = r.plugins
        /\ nextId' = r.nextId
        /\ last' = Call("schema", name, EmptyInput, r.out, r.nextId - nextId)
        /\ entered' = NoteEntries(entered, Keys(r.plugins), <<name>>)
        /\ UNCHANGED <<discovered_plugins, plugin_dir_exists, callers>>

ListPlugins ==
    /\ last' = Call("list", NoName, EmptyInput, Return(PyList(list_plugins(plugins))), 0)
    /\ UNCHANGED <<plugins, discovered_plugins, plugin_dir_exists, nextId, entered, callers>>

\* main(), lines 203-204.
RegisterBuiltins ==
    LET r == InsertBuiltins(plugins, nextId, 1)
    IN  /\ r.nextId <= MaxInst + 1
        /\ plugins' = r.plugins
        /\ nextId' = r.nextId
        /\ last' = Call("builtins", NoName, EmptyInput, Return(PyNone), r.nextId - nextId)
        /\ entered' = NoteEntries(entered, Keys(r.plugins),
                                  [i \in DOMAIN BUILTIN_PLUGINS |-> BUILTIN_PLUGINS[i].key])
        /\ UNCHANGED <<discovered_plugins, plugin_dir_exists, callers>>

Next ==
    \/ Discover
    \/ \E name \in Names : Load(name)
    \/ \E name \in Names : Unload(name)
    \/ \E name \in Names, input \in Inputs : Execute(name, input)
    \/ \E name \in Names : GetSchema(name)
    \/ ListPlugins
    \/ RegisterBuiltins

Spec == Init /\ [][Next]_vars

\* The manager with every scan's directory listing on record.
NextScan ==
    \/ \E order \in DirListings : DiscoverIn(order)
    \/ \E name \in Names : Load(name)
    \/ \E name \in Names : Unload(name)

SpecScan == Init /\ [][NextScan]_vars

\* ------------------------------------------------------- concurrent callers
\* The methods of the manager hold no lock, so a thread can be switched out
\* between any two lines of a call.  Each action below is one step of one
\* thread: a test, the constructor call, a store, a deletion, the dispatch.

\* The name and the input concurrent callers pass.
SharedName == "alpha"
SharedInputs == {EmptyInput, [text |-> <<"a", " ", "b", "\n">>]}

AllIdle == \A t \in Threads : callers[t] = Idle

\* Thread t goes to line `pc` of the call it is in.
Goto(t, pc) ==
    /\ callers' = [callers EXCEPT ![t].pc = pc]
    /\ UNCHANGED last

\* The call thread t is in returns (or raises) `out`.
Finish(t, out) ==
    /\ callers' = [callers EXCEPT ![t] = Idle]
    /\ last' = Call(callers[t].op, callers[t].name, callers[t].input, out, callers[t].made)

\* load_plugin returns b in thread t: to its caller, or to line 95 of
\* execute_plugin.
LoadReturns(t, b) ==
    IF callers[t].op = "load" THEN Finish(t, Return(PyBool(b)))
    ELSE IF b THEN Goto(t, "99")
    ELSE Finish(t, Return(PyNone))

\* discover_plugins(), run while no thread is in a call.
Startup == AllIdle /\ Discover

\* Thread t calls load_plugin, execute_plugin or unload_plugin.
Enter(t, op, input) ==
    /\ callers[t] = Idle
    /\ op = "execute" \/ input = EmptyInput
    /\ callers' = [callers EXCEPT ![t] =
                      [pc |-> CASE op = "load" -> "71" [] op = "execute" -> "94"
                                [] op = "unload" -> "87",
                       op |-> op, name |-> SharedName, input |-> input,
                       inst |-> NoInst, made |-> 0]]
    /\ UNCHANGED <<plugins, discovered_plugins, plugin_dir_exists, nextId, last, entered>>

\* Line 71: if name in self.plugins: return True
LoadCheckLive(t) ==
    /\ callers[t].pc = "71"
    /\ IF callers[t].name \in Keys(plugins) THEN LoadReturns(t, TRUE) ELSE Goto(t, "74")
    /\ UNCHANGED <<plugins, discovered_plugins, plugin_dir_exists, nextId, entered>>

\* Line 74: if name not in self._discovered_plugins: return False
LoadCheckDefined(t) ==
    /\ callers[t].pc = "74"
    /\ IF callers[t].name \notin DOMAIN discovered_plugins
       THEN LoadReturns(t, FALSE) ELSE Goto(t, "78")
    /\ UNCHANGED <<plugins, discovered_plugins, plugin_dir_exists, nextId, entered>>

\* Lines 78-79, the call plugin_class(); a fault goes to the handler of
\* line 81, which returns False.
LoadConstruct(t) ==
    /\ callers[t].pc = "78"
    /\ nextId <= MaxInst
    /\ LET made == Construct(discovered_plugins[callers[t].name], nextId)
       IN  IF made.kind = "return"
           THEN /\ callers' = [callers EXCEPT ![t].pc = "79", ![t].inst = made.value,
                                                ![t].made = @ + 1]
                /\ nextId' = nextId + 1
                /\ UNCHANGED last
           ELSE /\ LoadReturns(t, FALSE)
                /\ UNCHANGED nextId
    /\ UNCHANGED <<plugins, discovered_plugins, plugin_dir_exists, entered>>

\* Line 79, the store self.plugins[name] = <the instance>, and line 80.
LoadStore(t) ==
    /\ callers[t].pc = "79"
    /\ plugins' = DictSet(plugins, callers[t].name, callers[t].inst)
    /\ entered' = NoteEntries(entered, Keys(plugins'), <<callers[t].name>>)
    /\ LoadReturns(t, TRUE)
    /\ UNCHANGED <<discovered_plugins, plugin_dir_exists, nextId>>

\* Line 94: if name not in self.plugins; line 95 calls load_plugin.
ExecuteCheckLive(t) ==
    /\ callers[t].pc = "94"
    /\ IF callers[t].name \in Keys(plugins) THEN Goto(t, "99") ELSE Goto(t, "71")
    /\ UNCHANGED <<plugins, discovered_plugins, plugin_dir_exists, nextId, entered>>

\* Lines 98-101: the dispatch under the handler.
ExecuteDispatch(t) ==
    /\ callers[t].pc = "99"
    /\ Finish(t, ContainedExecute(plugins, callers[t].name, callers[t].input))
    /\ UNCHANGED <<plugins, discovered_plugins, plugin_dir_exists, nextId, entered>>

\* Line 87: if name in self.plugins; line 90 otherwise.
UnloadCheck(t) ==
    /\ callers[t].pc = "87"
    /\ IF callers[t].name \in Keys(plugins) THEN Goto(t, "88")
       ELSE Finish(t, Return(PyBool(FALSE)))
    /\ UNCHANGED <<plugins, discovered_plugins, plugin_dir_exists, nextId, entered>>

\* Lines 88-89: del self.plugins[name], a KeyError when the key has gone.
UnloadDelete(t) ==
    /\ callers[t].pc = "88"
    /\ IF callers[t].name \in Keys(plugins)
       THEN /\ plugins' = DictDel(plugins, callers[t].name)
            /\ Finish(t, Return(PyBool(TRUE)))
       ELSE /\ plugins' = plugins
            /\ Finish(t, Raise("KeyError", <<callers[t].name>>))
    /\ entered' = NoteEntries(entered, Keys(plugins'), << >>)
    /\ UNCHANGED <<discovered_plugins, plugin_dir_exists, nextId>>

NextConcurrent ==
    \/ Startup
    \/ \E t \in Threads, op \in {"load", "execute", "unload"}, input \in SharedInputs :
          Enter(t, op, input)
    \/ \E t \in Threads : LoadCheckLive(t)
    \/ \E t \in Threads : LoadCheckDefined(t)
    \/ \E t \in Threads : LoadConstruct(t)
    \/ \E t \in Threads : LoadStore(t)
    \/ \E t \in Threads : ExecuteCheckLive(t)
    \/ \E t \in Threads : ExecuteDispatch(t)
    \/ \E t \in Threads : UnloadCheck(t)
    \/ \E t \in Threads : UnloadDelete(t)

SpecConcurrent == Init /\ [][NextConcurrent]_vars

\* ------------------------------------------------------------------ results

PyTrue == Return(PyBool(TRUE))
PyFalse == Return(PyBool(FALSE))
NoResult == Return(PyNone)

\* A mapping with a boolean success field, returned normally.
IsStructured(out) ==
    /\ out.kind = "return"
    /\ out.value.tag = "dict"
    /\ "success" \in DOMAIN out.value.d
    /\ out.value.d.success \in BOOLEAN

\* Whether load_plugin(name) has something it can instantiate.
Loadable(name) ==
    /\ name \in DOMAIN discovered_plugins
    /\ Construct(discovered_plugins[name], nextId).kind = "return"

\* ----------------------------------------------------------------------- C1
\* C1: for a name that is neither defined nor live, execute_plugin returns
\* None, load_plugin returns False, and the call leaves both tables as they
\* were.
C1_NotFound ==
    [][\A name \in Names :
          ( /\ name \notin DOMAIN discovered_plugins
            /\ name \notin Keys(plugins)
            /\ last'.name = name
            /\ last'.op \in {"load", "execute"} )
          => /\ last'.out = (IF last'.op = "load" THEN PyFalse ELSE NoResult)
             /\ plugins' = plugins
             /\ discovered_plugins' = discovered_plugins]_vars

\* An execute_plugin of an unknown name has returned None while both tables
\* hold other names.
C1_Witness ==
    /\ last.op = "execute"
    /\ last.name = "ghost"
    /\ last.out = NoResult
    /\ "ghost" \notin DOMAIN discovered_plugins \cup Keys(plugins)
    /\ Keys(plugins) # {}
    /\ DOMAIN discovered_plugins # {}

\* ----------------------------------------------------------------------- C2
\* C2: whenever the execute of a resolved plugin raises, execute_plugin
\* returns {success: False, error: e} with e a non-empty string.
C2_FaultHasMessage ==
    ( /\ last.op = "execute"
      /\ last.name \in Keys(plugins)
      /\ PluginExecute(DictGet(plugins, last.name), last.input).kind = "raise" )
    => /\ last.out.kind = "return"
       /\ last.out.value.tag = "dict"
       /\ DOMAIN last.out.value.d = {"success", "error"}
       /\ last.out.value.d.success = FALSE
       /\ last.out.value.d.error # << >>

\* ----------------------------------------------------------------------- C3
\* C3: execute_plugin returns None exactly when the name is not live and the
\* implicit load fails; whenever the plugin is resolved (live already, or
\* loaded by the call) it returns a mapping with a boolean success field,
\* whether the plugin's execute returned or raised.
C3_TwoTier ==
    [][last'.op = "execute" =>
          IF last'.name \in Keys(plugins) \/ Loadable(last'.name)
          THEN IsStructured(last'.out)
          ELSE last'.out = NoResult]_vars

\* An execute_plugin has loaded the plugin itself and contained the KeyError
\* its execute raised.
C3_Witness ==
    /\ last.op = "execute"
    /\ last.made = 1
    /\ PluginExecute(DictGet(plugins, last.name), last.input).kind = "raise"
    /\ last.out = Return(PyDict([success |-> FALSE, error |-> <<"'", "text", "'">>]))

\* ----------------------------------------------------------------------- C4
\* C4: a load_plugin that follows a load_plugin of the same name that returned
\* True returns True as well, constructs nothing and leaves the live table
\* as it is; and no state holds two live entries for one name.
C4_LoadIdempotent ==
    /\ [](\A i, j \in DOMAIN plugins : plugins[i].key = plugins[j].key => i = j)
    /\ [][\A name \in Names :
            ( /\ last.op = "load" /\ last.name = name /\ last.out = PyTrue
              /\ last'.op = "load" /\ last'.name = name )
            => /\ last'.out = PyTrue
               /\ nextId' = nextId
               /\ plugins' = plugins]_vars

\* A second load_plugin of a name has followed the one that loaded it.
C4_Witness ==
    /\ last.op = "load"
    /\ last.after = "loaded"
    /\ last.out = PyTrue
    /\ last.name \in Keys(plugins)
    /\ last.name \in DOMAIN discovered_plugins

\* ----------------------------------------------------------------------- C5
\* What execute_plugin gives for the outcome `o` of a plugin's execute: a
\* fault becomes the failure mapping, a result is passed on.
ThroughHandler(o) ==
    IF o.kind = "raise"
    THEN Return(PyDict([success |-> FALSE, error |-> Str(o.exc)]))
    ELSE o

\* An execute_plugin of `name` directly after an unload_plugin of it that
\* returned True (so the name was live), the name being defined.
ExecuteAfterUnload(name) ==
    /\ last.op = "unload" /\ last.name = name /\ last.out = PyTrue
    /\ name \in DOMAIN discovered_plugins
    /\ last'.op = "execute" /\ last'.name = name

\* The call has built one instance of definitions[name], has left it live
\* and has returned what that instance gives for the input.
ReloadedAndRan(name) ==
    /\ last'.made = 1
    /\ name \in Keys(plugins')
    /\ DictGet(plugins', name) = [cls |-> discovered_plugins[name], id |-> nextId]
    /\ last'.out = ThroughHandler(PluginExecute([cls |-> discovered_plugins[name],
                                                 id |-> nextId], last'.input))

CallAfterUnload(name) ==
    /\ last.op = "unload" /\ last.name = name /\ last.out = PyTrue
    /\ last'.name = name
    /\ last'.op \in {"load", "execute"}

\* C6 as stated: after the unload_plugin of any live name, built-ins
\* included, load_plugin returns True and execute_plugin returns a result.
C6_ReloadAnyLive ==
    [][\A name \in Names :
          CallAfterUnload(name) =>
             IF last'.op = "load" THEN last'.out = PyTrue ELSE IsStructured(last'.out)]_vars

\* C6, amended: after the unload_plugin of a live name the definitions are
\* as before, and load_plugin returns True (execute_plugin returns a result)
\* exactly when the name is defined and its constructor does not raise; for
\* a built-in that has no definition load_plugin returns False and
\* execute_plugin returns None.
C6_ReloadIffDefined ==
    [][\A name \in Names :
          /\ (last'.op = "unload" => discovered_plugins' = discovered_plugins)
          /\ CallAfterUnload(name) =>
               /\ last'.op = "load" => last'.out = Return(PyBool(Loadable(name)))
               /\ last'.op = "execute" =>
                    IF Loadable(name) THEN IsStructured(last'.out)
                    ELSE last'.out = NoResult
               /\ name \in Keys(plugins') <=> Loadable(name)]_vars

\* A load_plugin of a built-in directly after its unload_plugin has returned
\* False: the built-in has no definition.
C6_Witness ==
    /\ last.op = "load"
    /\ last.after = "unloaded"
    /\ last.name = "uppercase"
    /\ last.out = PyFalse
    /\ "uppercase" \notin Keys(plugins)
    /\ {"reverse", "wordcount"} \subseteq Keys(plugins)

\* ----------------------------------------------------------------------- C7
\* C7: unload_plugin(name) returns True exactly when name was live; after it
\* name is not live, every other live entry is as before, and so are the
\* definitions.
C7_UnloadFrame ==
    [][last'.op = "unload" =>
          /\ last'.out = Return(PyBool(last'.name \in Keys(plugins)))
          /\ Keys(plugins') = Keys(plugins) \ {last'.name}
          /\ \A k \in Keys(plugins') : DictGet(plugins', k) = DictGet(plugins, k)
          /\ discovered_plugins' = discovered_plugins]_vars

\* An unload_plugin has removed one of several live names while a
\* definition is present.
C7_Witness ==
    /\ last.op = "unload"
    /\ last.out = PyTrue
    /\ last.name \notin Keys(plugins)
    /\ Cardinality(Keys(plugins)) >= 2
    /\ DOMAIN discovered_plugins # {}

\* ----------------------------------------------------------------------- C8
\* C8: for a name that is defined, not live, and whose constructor raises,
\* load_plugin returns False and execute_plugin returns None, no fault
\* leaves either call, and both tables stay as they were.
C8_ConstructorFault ==
    [][\A name \in Names :
          ( /\ name \in DOMAIN discovered_plugins
            /\ name \notin Keys(plugins)
            /\ Construct(discovered_plugins[name], nextId).kind = "raise"
            /\ last'.name = name
            /\ last'.op \in {"load", "execute"} )
          => /\ last'.out = (IF last'.op = "load" THEN PyFalse ELSE NoResult)
             /\ plugins' = plugins
             /\ discovered_plugins' = discovered_plugins]_vars

\* An execute_plugin of a name whose definition cannot be instantiated has
\* returned None, other names being live.
C8_Witness ==
    /\ last.op = "execute"
    /\ last.name \in DOMAIN discovered_plugins
    /\ InitRaises(discovered_plugins[last.name])
    /\ last.name \notin Keys(plugins)
    /\ last.out = NoResult
    /\ plugins # << >>

\* ----------------------------------------------------------------------- C9
\* C9: get_plugin_schema returns None exactly when the name is not live and
\* the implicit load fails; otherwise its outcome is that of the plugin's
\* get_schema: the value it returns, or the fault it raises, which reaches
\* the caller as it is.
C9_SchemaOutcomes ==
    [][last'.op = "schema" =>
          IF last'.name \in Keys(plugins) \/ Loadable(last'.name)
          THEN /\ last'.name \in Keys(plugins')
               /\ last'.out = PluginGetSchema(DictGet(plugins', last'.name))
               /\ last'.out # NoResult
               /\ ~IsStructured(last'.out)
          ELSE last'.out = NoResult]_vars

\* A get_plugin_schema has loaded the plugin and its get_schema has raised: the
\* fault has reached the caller.
C9_Witness ==
    /\ last.op = "schema"
    /\ last.made = 1
    /\ last.out = Raise("NotImplementedError", << >>)
    /\ last.name \in Keys(plugins)

\* ---------------------------------------------------------------------- C10
\* C10: list_plugins returns one {name, description, category} entry per live
\* name, none for a name that is only defined, in the order in which the
\* names last became live.
C10_ListLive ==
    LET L == list_plugins(plugins)
    IN  /\ Len(L) = Cardinality(Keys(plugins))
        /\ [i \in DOMAIN L |-> L[i].name] = entered
        /\ \A i \in DOMAIN L :
              /\ L[i].name \in Keys(plugins)
              /\ DOMAIN L[i] = {"name", "description", "category"}
              /\ L[i].description = ClassAttrs(DictGet(plugins, L[i].name).cls).description
              /\ L[i].category = ClassAttrs(DictGet(plugins, L[i].name).cls).category
        /\ last.op = "list" => last.out = Return(PyList(L))

\* list_plugins has been called with the built-ins and "alpha" live, "alpha"
\* last because it was loaded first, unloaded and loaded again.
C10_Witness ==
    /\ last.op = "list"
    /\ Len(plugins) = 4
    /\ plugins[1].value.id = 2
    /\ plugins[4].key = "alpha"
    /\ plugins[4].value.id = 5

\* ---------------------------------------------------------------------- C14
\* C14: every live name is defined or is the name of a built-in; a
\* load_plugin, execute_plugin or get_plugin_schema makes live only a name
\* that is defined when it is called, and the only other step that makes a
\* name live is the direct insertion of the built-ins.
C14_LiveWasDefined ==
    /\ [](Keys(plugins) \subseteq DOMAIN discovered_plugins \cup Keys(BUILTIN_PLUGINS))
    /\ [][LET arrived == Keys(plugins') \ Keys(plugins)
          IN  /\ last'.op \in {"load", "execute", "schema"} =>
                    arrived \subseteq DOMAIN discovered_plugins \cap {last'.name}
              /\ last'.op = "builtins" => arrived \subseteq Keys(BUILTIN_PLUGINS)
              /\ last'.op \notin {"load", "execute", "schema", "builtins"} =>
                    arrived = {}]_vars

\* A get_plugin_schema has made a defined name live next to the built-ins,
\* which have no definition.
C14_Witness ==
    /\ last.op = "schema"
    /\ last.made = 1
    /\ last.name \in DOMAIN discovered_plugins
    /\ Keys(plugins) = Keys(BUILTIN_PLUGINS) \cup {last.name}
    /\ Keys(BUILTIN_PLUGINS) \cap DOMAIN discovered_plugins = {}

\* ---------------------------------------------------------------------- C15
\* C15: every name in the definitions can be made live: it is live, or the
\* class it is bound to can be instantiated.
C15_NoInvalidDefinition ==
    \A name \in DOMAIN discovered_plugins :
        name \in Keys(plugins) \/ Loadable(name)

\* ---------------------------------------------------------------------- C17
\* C17: no step takes a name out of the definitions, and only
\* discover_plugins changes what a name is bound to.
C17_DefinitionsGrow ==
    [][/\ DOMAIN discovered_plugins \subseteq DOMAIN discovered_plugins'
       /\ last'.op # "discover" => discovered_plugins' = discovered_plugins]_vars

\* A scan that has found no plugin has left the definition of a name in
\* place, the name not being live.
C17_Witness ==
    /\ last.op = "discover"
    /\ last.out = Return(PyList(<< >>))
    /\ "alpha" \in DOMAIN discovered_plugins
    /\ "alpha" \notin Keys(plugins)
    /\ plugins # << >>

\* ---------------------------------------------------------------------- C18
\* C18: discover_plugins leaves the live table as it is; execute_plugin of a
\* live name runs the instance that is live, whatever class the name is
\* bound to by now, and leaves it live; a load_plugin that makes a name live
\* builds the instance from the class the name is bound to at that time.
C18_LiveKeepsInstance ==
    [][/\ last'.op = "discover" => plugins' = plugins /\ nextId' = nextId
       /\ (last'.op = "execute" /\ last'.name \in Keys(plugins)) =>
             /\ plugins' = plugins
             /\ last'.made = 0
             /\ last'.out = ThroughHandler(PluginExecute(DictGet(plugins, last'.name),
                                                         last'.input))
       /\ (last'.op = "load" /\ last'.name \notin Keys(plugins) /\ last'.out = PyTrue) =>
             DictGet(plugins', last'.name)
               = [cls |-> discovered_plugins[last'.name], id |-> nextId]]_vars

\* An execute_plugin has run the AlphaOne instance that is live while a
\* later scan has bound "alpha" to AlphaTwo.
C18_Witness ==
    /\ last.op = "execute"
    /\ "alpha" \in Keys(plugins)
    /\ DictGet(plugins, "alpha").cls = "AlphaOne"
    /\ discovered_plugins = [alpha |-> "AlphaTwo"]
    /\ last.name = "alpha"
    /\ last.out = Return(PyDict([success |-> TRUE, output |-> <<"a", " ", "b", "\n">>]))

\* ---------------------------------------------------------------------- C19
\* C19: an execute_plugin or get_plugin_schema of a name that is not live,
\* is defined and can be instantiated builds one instance of its class and
\* leaves it live, whatever the plugin's method returns or raises; of a
\* name that is live it builds nothing, gives the outcome of the live
\* instance and leaves both tables as they were.
C19_LazyLoadSticks ==
    [][last'.op \in {"execute", "schema"} =>
          LET name == last'.name
          IN  /\ discovered_plugins' = discovered_plugins
              /\ name \in Keys(plugins) =>
                    /\ plugins' = plugins
                    /\ last'.made = 0
                    /\ last'.out = IF last'.op = "execute"
                                   THEN ThroughHandler(PluginExecute(DictGet(plugins, name),
                                                                     last'.input))
                                   ELSE PluginGetSchema(DictGet(plugins, name))
              /\ (name \notin Keys(plugins) /\ Loadable(name)) =>
                    /\ last'.made = 1
                    /\ plugins' = Append(plugins,
                                         [key |-> name,
                                          value |-> [cls |-> discovered_plugins[name],
                                                     id |-> nextId]])]_vars

\* An execute_plugin has loaded "alpha" next to the built-ins; the plugin's
\* execute has raised, the fault has been contained and "alpha" is live.
C19_Witness ==
    /\ last.op = "execute"
    /\ last.made = 1
    /\ last.name = "alpha"
    /\ last.input = [text |-> << >>]
    /\ last.out = Return(PyDict([success |-> FALSE, error |-> << >>]))
    /\ Keys(plugins) = Keys(BUILTIN_PLUGINS) \cup {"alpha"}

\* -------------------------------------------------------- scans on record
\* A file that discovery takes as a candidate and whose load raises.
FailsToLoad(file) == ~StartsWithUnderscore(file) /\ ExecModuleRaises(file)

\* The files of a listing that discovery takes as candidates and that load.
ValidFiles(order) ==
    SelectSeq(order, LAMBDA f : ~StartsWithUnderscore(f) /\ ~ExecModuleRaises(f))

\* The names the classes of a file declare, in the order of dir(module).
DeclaredIn(file) ==
    [j \in DOMAIN ModuleClasses(file) |-> ClassAttrs(ModuleClasses(file)[j]).name]

RECURSIVE DeclaredBy(_)
\* The names the files declare, file after file.
DeclaredBy(files) ==
    IF files = << >> THEN << >> ELSE DeclaredIn(Head(files)) \o DeclaredBy(Tail(files))

\* The class a file binds to the name n: the last one of dir(module) that
\* declares it.
ClassFor(file, n) ==
    LET js == {j \in DOMAIN ModuleClasses(file) : DeclaredIn(file)[j] = n}
    IN  ModuleClasses(file)[CHOOSE j \in js : \A k \in js : k <= j]

\* ---------------------------------------------------------------------- C11
\* C11: a discover_plugins whose listing holds a candidate that fails to load
\* returns normally; it returns the names the valid candidates declare,
\* those before the failing one and those after it, and registers each of
\* them; the failing candidate adds no key and no class to the definitions.
C11_FaultSkipped ==
    [][( /\ last'.op = "discover"
         /\ \E i \in DOMAIN last'.input : FailsToLoad(last'.input[i]) )
       => LET valid == ValidFiles(last'.input)
          IN  /\ last'.out = Return(PyList(DeclaredBy(valid)))
              /\ DOMAIN discovered_plugins'
                    = DOMAIN discovered_plugins \cup Range(DeclaredBy(valid))
              /\ \A n \in DOMAIN discovered_plugins' :
                    \/ /\ n \in DOMAIN discovered_plugins
                       /\ discovered_plugins'[n] = discovered_plugins[n]
                    \/ \E i \in DOMAIN valid :
                          /\ n \in Range(DeclaredIn(valid[i]))
                          /\ discovered_plugins'[n] = ClassFor(valid[i], n)]_vars

\* A scan has met the failing file between two valid ones and has registered
\* both of them.
C11_Witness ==
    /\ last.op = "discover"
    /\ last.input = <<"alpha_one.py", "broken.py", "alpha_wip.py">>
    /\ last.out = Return(PyList(<<"alpha", "alpha">>))
    /\ discovered_plugins = [alpha |-> "AlphaWip"]

\* ---------------------------------------------------------------------- C12
\* C12: a discover_plugins that scans a directory returns normally, and
\* afterwards every name is bound to the class of the last valid candidate
\* of the listing that declares it, whatever an earlier candidate or an
\* earlier run bound it to; a name no candidate declares is as before.
C12_LaterWins ==
    [][( /\ last'.op = "discover" /\ last'.input # NoListing )
       => LET valid == ValidFiles(last'.input)
              names == Range(DeclaredBy(valid))
          IN  /\ last'.out.kind = "return"
              /\ DOMAIN discovered_plugins' = DOMAIN discovered_plugins \cup names
              /\ \A n \in DOMAIN discovered_plugins' \ names :
                    discovered_plugins'[n] = discovered_plugins[n]
              /\ \A n \in names :
                    \E i \in DOMAIN valid :
                       /\ n \in Range(DeclaredIn(valid[i]))
                       /\ \A k \in DOMAIN valid :
                             n \in Range(DeclaredIn(valid[k])) => k <= i
                       /\ discovered_plugins'[n] = ClassFor(valid[i], n)]_vars

\* A scan has met two files that declare "alpha", while "alpha" is live
\* from an earlier run: the name is bound to the class of the second file.
C12_Witness ==
    /\ last.op = "discover"
    /\ last.input = <<"alpha_two.py", "alpha_one.py">>
    /\ last.out = Return(PyList(<<"alpha", "alpha">>))
    /\ discovered_plugins = [alpha |-> "AlphaOne"]
    /\ "alpha" \in Keys(plugins)

\* ---------------------------------------------------------------------- C13
\* C13: a discover_plugins on a root that does not exist makes the directory
\* and returns the empty list; on a directory that holds no file it returns
\* the empty list; both leave the two tables as they were.  After any
\* discover_plugins the directory exists, so the next one scans it.
C13_EmptyRoot ==
    [][last'.op = "discover" =>
          /\ plugin_dir_exists'
          /\ (last'.input = NoListing) <=> ~plugin_dir_exists
          /\ (~plugin_dir_exists \/ last'.input = << >>) =>
                /\ last'.out = Return(PyList(<< >>))
                /\ discovered_plugins' = discovered_plugins
                /\ plugins' = plugins]_vars

\* The discover_plugins after the one that made the directory has scanned it
\* and has found a plugin.
C13_Witness ==
    /\ last.op = "discover"
    /\ last.after = "created"
    /\ last.input = <<"alpha_one.py">>
    /\ last.out = Return(PyList(<<"alpha">>))
    /\ discovered_plugins = [alpha |-> "AlphaOne"]

\* ---------------------------------------------------------------------- C16
\* C16: with calls of several threads interleaved, no name has two live
\* entries, and no two threads hold an instance each that they have built
\* for the same name and are about to store.
C16_SerializedLoad ==
    /\ \A i, j \in DOMAIN plugins : plugins[i].key = plugins[j].key => i = j
    /\ \A t, u \in Threads :
          ( /\ callers[t].pc = "79" /\ callers[u].pc = "79"
            /\ callers[t].name = callers[u].name )
          => t = u

\* ---------------------------------------------------------------------- C20
\* C20: with calls of several threads interleaved, an unload_plugin between
\* the test of line 94 (or the implicit load) and the dispatch included,
\* every execute_plugin returns: None, or a mapping with a boolean success.
C20_ExecuteNeverRaises ==
    last.op = "execute" => (last.out = NoResult \/ IsStructured(last.out))

\* An execute_plugin has found the name gone at line 99, another thread
\* having unloaded it: the KeyError has been turned into a failure result.
C20_Witness ==
    /\ last.op = "execute"
    /\ last.out = Return(PyDict([success |-> FALSE, error |-> <<"'", "alpha", "'">>]))
    /\ "alpha" \notin Keys(plugins)

====
